---- MODULE Spec2Model ----
(***************************************************************************)
(* Pokit: a browser chord instrument (Svelte 5 component).                 *)
(*                                                                         *)
(* The repository holds two revisions of the component:                    *)
(*   src/unnamed/part_000        the current revision  (specification Spec)*)
(*   src/src/App.svelte:336-811  an earlier revision   (SpecApp)           *)
(* Both are modelled over the same variables.  SpecGesture and SpecEarly   *)
(* run the current revision under joystick gestures that keep their angle  *)
(* and distance, and with input ahead of onMount.  An input event is handled *)
(* by its handler in one step; the reactive effects the handler's writes   *)
(* make dirty then run one per step, in declaration order, batch after     *)
(* batch, and the callbacks deferred with tick().then(..) run after the    *)
(* last batch, first in first out.  The browser delivers the next input    *)
(* event only when all of that has run (they are microtasks of the event's *)
(* task), so handlers are enabled only in a settled state.                 *)
(*                                                                         *)
(* Angles and distances are carried doubled (angle2 = 2 * degrees,         *)
(* dist2 = 2 * pixels) so that 22.5 degrees and 37.5 pixels are integers.  *)
(***************************************************************************)
EXTENDS Integers, Sequences, FiniteSets, Bags, TLC

VARIABLES
  synth,                  \* TRUE once the Tone.PolySynth exists
  lastKeyClicked,         \* the sounding chord key, or None
  pressedKeys,            \* SvelteSet of pressed keys
  modifierKeys,           \* SvelteSet of held w/a/s/d keys (part_000)
  previousTransposition,
  transposition,
  joystickActive,
  knobs,                  \* attack, decay, sustain, release, waveformValue
  held,                   \* tone engine: bag of chords attacked and not released
  calls,                  \* tone-engine calls issued since the current event began
  event,                  \* the current event and the state it arrived in
  batch,                  \* effects of the running flush, in execution order
  pending,                \* effects made dirty for the next batch
  ticks,                  \* callbacks deferred with tick().then(..)
  adsrDeps                \* what the ADSR effect subscribed to in its last run

vars == <<synth, lastKeyClicked, pressedKeys, modifierKeys, previousTransposition,
          transposition, joystickActive, knobs, held, calls, event, batch,
          pending, ticks, adsrDeps>>

None == "none"

(***************************************************************************)
(* Static data                                                             *)
(***************************************************************************)
ChordKeys == {"h", "u", "j", "i", "k", "o", "l"}
ModKeys == {"w", "a", "s", "d"}

\* A note "C#3" is the pair <<"C#", 3>>.
chords ==
  [k \in ChordKeys |->
     CASE k = "h" -> << <<"C", 3>>, <<"E", 3>>, <<"G", 3>> >>
       [] k = "u" -> << <<"D", 3>>, <<"F", 3>>, <<"A", 3>> >>
       [] k = "j" -> << <<"E", 3>>, <<"G", 3>>, <<"B", 3>> >>
       [] k = "i" -> << <<"F", 3>>, <<"A", 3>>, <<"C", 4>> >>
       [] k = "k" -> << <<"G", 3>>, <<"B", 3>>, <<"D", 4>> >>
       [] k = "o" -> << <<"A", 3>>, <<"C", 4>>, <<"E", 4>> >>
       [] k = "l" -> << <<"B", 3>>, <<"D", 4>>, <<"F", 4>> >>]

\* Mutant: the keys of transpositionMap in the order they are written.
mapAnglesDeclared == <<90, 45, 0, 315, 270, 225, 180, 135>>

\* Object.keys(transpositionMap): integer-like keys come in ascending order.
mapAngles == <<0, 45, 90, 135, 180, 225, 270, 315>>

transpositionMap(angle) ==
  CASE angle = 90 -> 0
    [] angle = 45 -> 2
    [] angle = 0 -> 4
    [] angle = 315 -> 7
    [] angle = 270 -> 5
    [] angle = 225 -> -3
    [] angle = 180 -> -6
    [] angle = 135 -> 3

waveformEnum == <<"sawtooth", "sine", "square", "triangle">>

(***************************************************************************)
(* Pure functions                                                          *)
(***************************************************************************)
Min2(a, b) == IF a <= b THEN a ELSE b
Max2(a, b) == IF a >= b THEN a ELSE b
Abs(a) == IF a >= 0 THEN a ELSE -a

\* Mutant: the bounds are applied the other way round.
clampSwapped(val, min, max) == Max2(Min2(val, min), max)

clamp(val, min, max) == Min2(Max2(val, min), max)

\* Tone.Frequency(note): pitch name to MIDI number and back (toNote names
\* the black keys with sharps).
scaleIndexToNote == <<"C", "C#", "D", "D#", "E", "F", "F#", "G", "G#", "A", "A#", "B">>
noteToScaleIndex(name) == (CHOOSE i \in 1..12 : scaleIndexToNote[i] = name) - 1
toMidi(note) == noteToScaleIndex(note[1]) + 12 * (note[2] + 1)
\* Mutant: the octave of MIDI number m is taken as m / 12.
toNoteOctaveOff(midi) == <<scaleIndexToNote[(midi % 12) + 1], midi \div 12>>

toNote(midi) == <<scaleIndexToNote[(midi % 12) + 1], (midi \div 12) - 1>>

transposeNote(note, semitones) ==
  IF semitones = 0 THEN note ELSE toNote(toMidi(note) + semitones)

\* chords[key].frequencies.map(note => transposeNote(note, offset))
getTransposedFrequencies(key, offset) ==
  [i \in 1..3 |-> transposeNote(chords[key][i], offset)]

\* JavaScript's %: the sign of the dividend.
jsRem(a, n) == IF a >= 0 THEN a % n ELSE -((-a) % n)

\* Mutant: the difference is taken without the wraparound candidates.
RECURSIVE closestFromNoWrap(_, _, _, _)
closestFromNoWrap(i, normalized2, closestAngle, minDifference2) ==
  IF i > Len(mapAngles) THEN closestAngle
  ELSE LET mapAngle2 == 2 * mapAngles[i]
           difference2 == Abs(normalized2 - mapAngle2)
       IN IF difference2 < minDifference2
          THEN closestFromNoWrap(i + 1, normalized2, mapAngles[i], difference2)
          ELSE closestFromNoWrap(i + 1, normalized2, closestAngle, minDifference2)

RECURSIVE closestFrom(_, _, _, _)
closestFrom(i, normalized2, closestAngle, minDifference2) ==
  IF i > Len(mapAngles) THEN closestAngle
  ELSE LET mapAngle2 == 2 * mapAngles[i]
           difference2 == Min2(Abs(normalized2 - mapAngle2),
                               Min2(Abs(normalized2 - mapAngle2 + 720),
                                    Abs(normalized2 - mapAngle2 - 720)))
       IN IF difference2 < minDifference2
          THEN closestFrom(i + 1, normalized2, mapAngles[i], difference2)
          ELSE closestFrom(i + 1, normalized2, closestAngle, minDifference2)

\* Mutant: the angle is not normalized.
getTranspositionFromAngleUnnormalized(angle2) ==
  transpositionMap(closestFrom(1, angle2, 0, 720))

getTranspositionFromAngle(angle2) ==
  LET normalized2 == jsRem(jsRem(angle2, 720) + 720, 720)
  IN transpositionMap(closestFrom(1, normalized2, 0, 720))

\* Mutant: the scaled offset is truncated toward zero.
scaledTranspositionTruncated(angle2, dist2) ==
  LET newTransposition == getTranspositionFromAngle(angle2)
  IN IF dist2 >= 150 THEN newTransposition
     ELSE IF newTransposition >= 0 THEN (newTransposition * dist2) \div 150
     ELSE -((-newTransposition * dist2) \div 150)

\* Math.round(newTransposition * Math.min(distance / 75, 1)), round half up.
scaledTransposition(angle2, dist2) ==
  LET newTransposition == getTranspositionFromAngle(angle2)
  IN IF dist2 >= 150 THEN newTransposition
     ELSE (2 * newTransposition * dist2 + 150) \div 300

\* Mutant: an opposing pair leaves the angle null.
wasdAngleNullOnOpposing(keys) ==
  LET w == "w" \in keys
      a == "a" \in keys
      s == "s" \in keys
      d == "d" \in keys
  IN IF (w /\ s) \/ (a /\ d) THEN -1
     ELSE IF w /\ d THEN 45
     ELSE IF s /\ d THEN 315
     ELSE IF s /\ a THEN 225
     ELSE IF w /\ a THEN 135
     ELSE IF w THEN 90
     ELSE IF d THEN 0
     ELSE IF s THEN 270
     ELSE IF a THEN 180
     ELSE -1

\* Mutant: the single-key rules come before the two-key rules.
wasdAngleSinglesFirst(keys) ==
  LET w == "w" \in keys
      a == "a" \in keys
      s == "s" \in keys
      d == "d" \in keys
  IN IF w THEN 90
     ELSE IF d THEN 0
     ELSE IF s THEN 270
     ELSE IF a THEN 180
     ELSE -1

\* updateWASDTransposition: the angle chain (-1 stands for null), then
\* setTransposition.
wasdAngle(keys) ==
  LET w == "w" \in keys
      a == "a" \in keys
      s == "s" \in keys
      d == "d" \in keys
  IN IF w /\ d THEN 45
     ELSE IF s /\ d THEN 315
     ELSE IF s /\ a THEN 225
     ELSE IF w /\ a THEN 135
     ELSE IF w THEN 90
     ELSE IF d THEN 0
     ELSE IF s THEN 270
     ELSE IF a THEN 180
     ELSE -1

updateWASDTransposition(keys) ==
  IF wasdAngle(keys) # -1
  THEN clamp(getTranspositionFromAngle(2 * wasdAngle(keys)), -24, 24)
  ELSE clamp(0, -24, 24)

\* Mutant: the fallback name carries no offset when nothing is detected.
getChordNameBareUnknown(key, offset, chord, originalChord) ==
  IF Len(chord) > 0 THEN chord[1]
  ELSE IF Len(originalChord) = 0 THEN "Unknown"
  ELSE IF offset = 0 THEN originalChord[1]
  ELSE originalChord[1] \o " " \o (IF offset > 0 THEN "+" ELSE "") \o ToString(offset)

\* Mutant: positive offsets are written without a sign.
getChordNameNoPlus(key, offset, chord, originalChord) ==
  IF Len(chord) > 0 THEN chord[1]
  ELSE LET originalName == IF Len(originalChord) > 0 THEN originalChord[1] ELSE "Unknown"
       IN IF offset = 0 THEN originalName
          ELSE originalName \o " " \o ToString(offset)

\* getChordName(key) at the given offset.  Chord.detect is the tonal
\* library's: `chord` is what it returns for the frequencies of key at the
\* offset, `originalChord` what it returns for the base triad.
getChordName(key, offset, chord, originalChord) ==
  IF Len(chord) > 0 THEN chord[1]
  ELSE LET originalName == IF Len(originalChord) > 0 THEN originalChord[1] ELSE "Unknown"
           direction == IF offset > 0 THEN "+" ELSE ""
       IN IF offset = 0 THEN originalName
          ELSE originalName \o " " \o direction \o ToString(offset)

\* waveformEnum.denormalize(waveformValue), the knob value carried in sixths.
waveform(waveformValue6) == waveformEnum[((waveformValue6 + 1) \div 2) + 1]

(***************************************************************************)
(* The tone engine, as the component sees it: a log of the calls it        *)
(* receives and the bag of chords attacked and not yet released (an attack *)
(* allocates voices for the chord, a release frees the voices of one       *)
(* attack of it).  An entry of the log records in `hit` whether the chord  *)
(* it names was held when the call arrived.                                *)
(***************************************************************************)
triggerAttack(e, freqs) ==
  [held |-> e.held (+) SetToBag({freqs}),
   calls |-> Append(e.calls, [op |-> "attack", freqs |-> freqs, hit |-> BagIn(freqs, e.held)])]

triggerRelease(e, freqs) ==
  [held |-> e.held (-) SetToBag({freqs}),
   calls |-> Append(e.calls, [op |-> "release", freqs |-> freqs, hit |-> BagIn(freqs, e.held)])]

releaseAll(e) ==
  [held |-> EmptyBag,
   calls |-> Append(e.calls, [op |-> "releaseAll", freqs |-> <<>>, hit |-> e.held # EmptyBag])]

\* synth.set, synth.dispose, new Tone.PolySynth
engineCall(e, op) ==
  [held |-> e.held,
   calls |-> Append(e.calls, [op |-> op, freqs |-> <<>>, hit |-> FALSE])]

(***************************************************************************)
(* The component's reactive state as one record, and the scheduler         *)
(***************************************************************************)
Cur ==
  [synth |-> synth, last |-> lastKeyClicked, pressed |-> pressedKeys,
   mods |-> modifierKeys, prev |-> previousTransposition, t |-> transposition,
   joy |-> joystickActive, knobs |-> knobs]

Store(s) ==
  /\ synth' = s.synth
  /\ lastKeyClicked' = s.last
  /\ pressedKeys' = s.pressed
  /\ modifierKeys' = s.mods
  /\ previousTransposition' = s.prev
  /\ transposition' = s.t
  /\ joystickActive' = s.joy
  /\ knobs' = s.knobs

Engine == [held |-> held, calls |-> calls]
FreshEngine == [held |-> held, calls |-> <<>>]

StoreEngine(e) ==
  /\ held' = e.held
  /\ calls' = e.calls

\* Effects in the order the component declares them (onMount last).
effectOrder == <<"transpose", "wasd", "adsr", "mount">>

Range(q) == {q[i] : i \in 1..Len(q)}
InOrder(S) == SelectSeq(effectOrder, LAMBDA x : x \in S)

\* A settled state: nothing to flush, nothing deferred.
Idle == batch = <<>> /\ pending = {} /\ ticks = <<>>

\* After a step that leaves `rest` of the batch and marked `marks` dirty: an
\* effect still waiting in the batch runs there; the others wait for the
\* next batch, which starts when this one is done.
Schedule(rest, marks) ==
  LET pend == pending \cup (marks \ Range(rest))
  IN IF rest = <<>>
     THEN batch' = InOrder(pend) /\ pending' = {}
     ELSE batch' = rest /\ pending' = pend

(***************************************************************************)
(* What a step's writes make dirty.  `old` and `new` are the state before  *)
(* and after, `bumped` whether pressedKeys' version changed, `deps` the    *)
(* ADSR effect's subscriptions.                                            *)
(*   transpose  reads transposition and previousTransposition (the rest of *)
(*              its condition only when they differ, and then it writes    *)
(*              previousTransposition and runs again);                     *)
(*   wasd       reads modifierKeys.values();                               *)
(*   adsr       reads synth and, when it is set, lastKeyClicked, the       *)
(*              membership of lastKeyClicked in pressedKeys (the set's     *)
(*              version when it is absent), waveform and the envelope.     *)
(***************************************************************************)
adsrReads(s) ==
  <<s.last, waveform(s.knobs.waveformValue), s.knobs.attack, s.knobs.decay,
    s.knobs.sustain, s.knobs.release>>

Dirty(old, new, bumped, deps) ==
  (IF old.t # new.t \/ old.prev # new.prev THEN {"transpose"} ELSE {})
  \cup (IF old.mods # new.mods THEN {"wasd"} ELSE {})
  \cup (IF \/ old.synth # new.synth
           \/ /\ deps.body
              /\ \/ adsrReads(old) # adsrReads(new)
                 \/ /\ deps.key # None
                    /\ IF deps.present THEN deps.key \notin new.pressed ELSE bumped
        THEN {"adsr"} ELSE {})

(***************************************************************************)
(* src/unnamed/part_000: handlers.  Each maps the state s and the engine e *)
(* to [s, e, bumped].                                                      *)
(***************************************************************************)
setTransposition(s, value) == [s EXCEPT !.t = clamp(value, -24, 24)]

\* Mutant: the previous chord is dropped from pressedKeys but not released.
onKeyDownKeepsPrevious(s, e, key) ==
  IF key \in ChordKeys
  THEN IF key \notin s.pressed /\ s.synth
       THEN LET added == s.pressed \cup {key}
                playing == s.last # None /\ s.last \in added
                kept == IF playing THEN added \ {s.last} ELSE added
            IN [s |-> [s EXCEPT !.pressed = kept, !.last = key],
                e |-> triggerAttack(e, getTransposedFrequencies(key, s.t)),
                bumped |-> TRUE]
       ELSE [s |-> s, e |-> e, bumped |-> FALSE]
  ELSE [s |-> [s EXCEPT !.mods = s.mods \cup {key}], e |-> e, bumped |-> FALSE]

\* Mutant: the new chord is attacked before the previous one is released.
onKeyDownAttackFirst(s, e, key) ==
  IF key \in ChordKeys
  THEN IF key \notin s.pressed /\ s.synth
       THEN LET added == s.pressed \cup {key}
                playing == s.last # None /\ s.last \in added
                e1 == triggerAttack(e, getTransposedFrequencies(key, s.t))
                kept == IF playing THEN added \ {s.last} ELSE added
            IN [s |-> [s EXCEPT !.pressed = kept, !.last = key],
                e |-> IF playing
                      THEN triggerRelease(e1, getTransposedFrequencies(s.last, s.t))
                      ELSE e1,
                bumped |-> TRUE]
       ELSE [s |-> s, e |-> e, bumped |-> FALSE]
  ELSE [s |-> [s EXCEPT !.mods = s.mods \cup {key}], e |-> e, bumped |-> FALSE]

\* Mutant: the chord branch does not ask for the engine.
onKeyDownNoSynthGuard(s, e, key) ==
  IF key \in ChordKeys
  THEN IF key \notin s.pressed
       THEN LET added == s.pressed \cup {key}
                playing == s.last # None /\ s.last \in added
                e1 == IF playing
                      THEN triggerRelease(e, getTransposedFrequencies(s.last, s.t))
                      ELSE e
                kept == IF playing THEN added \ {s.last} ELSE added
            IN [s |-> [s EXCEPT !.pressed = kept, !.last = key],
                e |-> triggerAttack(e1, getTransposedFrequencies(key, s.t)),
                bumped |-> TRUE]
       ELSE [s |-> s, e |-> e, bumped |-> FALSE]
  ELSE [s |-> [s EXCEPT !.mods = s.mods \cup {key}], e |-> e, bumped |-> FALSE]

\* Mutant: the previous chord is released but its key stays in pressedKeys.
onKeyDownKeepsPressed(s, e, key) ==
  IF key \in ChordKeys
  THEN IF key \notin s.pressed /\ s.synth
       THEN LET added == s.pressed \cup {key}
                playing == s.last # None /\ s.last \in added
                e1 == IF playing
                      THEN triggerRelease(e, getTransposedFrequencies(s.last, s.t))
                      ELSE e
            IN [s |-> [s EXCEPT !.pressed = added, !.last = key],
                e |-> triggerAttack(e1, getTransposedFrequencies(key, s.t)),
                bumped |-> TRUE]
       ELSE [s |-> s, e |-> e, bumped |-> FALSE]
  ELSE [s |-> [s EXCEPT !.mods = s.mods \cup {key}], e |-> e, bumped |-> FALSE]

onKeyDown(s, e, key) ==
  IF key \in ChordKeys
  THEN IF key \notin s.pressed /\ s.synth
       THEN LET added == s.pressed \cup {key}
                playing == s.last # None /\ s.last \in added
                e1 == IF playing
                      THEN triggerRelease(e, getTransposedFrequencies(s.last, s.t))
                      ELSE e
                kept == IF playing THEN added \ {s.last} ELSE added
            IN [s |-> [s EXCEPT !.pressed = kept, !.last = key],
                e |-> triggerAttack(e1, getTransposedFrequencies(key, s.t)),
                bumped |-> TRUE]
       ELSE [s |-> s, e |-> e, bumped |-> FALSE]
  ELSE [s |-> [s EXCEPT !.mods = s.mods \cup {key}], e |-> e, bumped |-> FALSE]

\* Mutant: the key-up releases the untransposed triad.
onKeyUpBaseTriad(s, e, key) ==
  IF key \in ChordKeys
  THEN IF key \in s.pressed /\ s.synth
       THEN [s |-> [s EXCEPT !.pressed = s.pressed \ {key},
                             !.last = IF s.last = key THEN None ELSE s.last],
             e |-> triggerRelease(e, chords[key]),
             bumped |-> TRUE]
       ELSE [s |-> s, e |-> e, bumped |-> FALSE]
  ELSE [s |-> [s EXCEPT !.mods = s.mods \ {key}], e |-> e, bumped |-> FALSE]

\* Mutant: the key-up leaves the sounding key set.
onKeyUpKeepsLast(s, e, key) ==
  IF key \in ChordKeys
  THEN IF key \in s.pressed /\ s.synth
       THEN [s |-> [s EXCEPT !.pressed = s.pressed \ {key}],
             e |-> triggerRelease(e, getTransposedFrequencies(key, s.t)),
             bumped |-> TRUE]
       ELSE [s |-> s, e |-> e, bumped |-> FALSE]
  ELSE [s |-> [s EXCEPT !.mods = s.mods \ {key}], e |-> e, bumped |-> FALSE]

onKeyUp(s, e, key) ==
  IF key \in ChordKeys
  THEN IF key \in s.pressed /\ s.synth
       THEN [s |-> [s EXCEPT !.pressed = s.pressed \ {key},
                             !.last = IF s.last = key THEN None ELSE s.last],
             e |-> triggerRelease(e, getTransposedFrequencies(key, s.t)),
             bumped |-> TRUE]
       ELSE [s |-> s, e |-> e, bumped |-> FALSE]
  ELSE [s |-> [s EXCEPT !.mods = s.mods \ {key}], e |-> e, bumped |-> FALSE]

\* Mutant: no threshold on the displacement.
handleJoystickMoveNoThreshold(s, angle2, dist2) ==
  [setTransposition(s, scaledTransposition(angle2, dist2)) EXCEPT !.joy = TRUE]

handleJoystickMove(s, angle2, dist2) ==
  IF dist2 > 10
  THEN [setTransposition(s, scaledTransposition(angle2, dist2)) EXCEPT !.joy = TRUE]
  ELSE s

handleJoystickEnd(s) == setTransposition([s EXCEPT !.joy = FALSE], 0)

(***************************************************************************)
(* src/unnamed/part_000: effects and deferred callbacks                    *)
(***************************************************************************)
\* Mutant: the frequencies to release are computed from the new offset.
retransposeOldAtNewOffset(s) == getTransposedFrequencies(s.last, s.t)

\* $effect, live re-transposition: oldFreqs, and the effect: [s, ticks]
retransposeOld(s) == getTransposedFrequencies(s.last, s.prev)

\* Mutant: previousTransposition is recorded only when a chord is re-attacked.
effectTransposeRecordsWhenPlaying(s, q) ==
  IF s.t # s.prev /\ s.last # None /\ s.last \in s.pressed /\ s.synth
  THEN [s |-> [s EXCEPT !.prev = s.t],
        ticks |-> Append(q, [kind |-> "retranspose", old |-> retransposeOld(s), key |-> None])]
  ELSE [s |-> s, ticks |-> q]

\* Mutant: the effect exchanges the two offsets instead of recording one.
effectTransposeSwaps(s, q) == [s |-> [s EXCEPT !.prev = s.t, !.t = s.prev], ticks |-> q]

effectTranspose(s, q) ==
  [s |-> [s EXCEPT !.prev = s.t],
   ticks |-> IF s.t # s.prev /\ s.last # None /\ s.last \in s.pressed /\ s.synth
             THEN Append(q, [kind |-> "retranspose", old |-> retransposeOld(s), key |-> None])
             ELSE q]

\* Mutant: the offset is left alone when no modifier is held.
effectWasdKeepsOnNone(s) ==
  IF s.mods = {} THEN s ELSE [s EXCEPT !.t = updateWASDTransposition(s.mods)]

\* watch(() => modifierKeys.values(), updateWASDTransposition)
effectWasd(s) == [s EXCEPT !.t = updateWASDTransposition(s.mods)]

\* Mutant: the sounding chord is not restarted after synth.set.
effectAdsrNoRestart(s, e, q) ==
  IF s.synth
  THEN LET wasPlaying == s.last # None /\ s.last \in s.pressed
           e1 == engineCall(e, "set")
       IN [s |-> IF ~wasPlaying THEN [s EXCEPT !.pressed = {}, !.last = None] ELSE s,
           e |-> IF ~wasPlaying THEN releaseAll(e1) ELSE e1,
           ticks |-> q,
           deps |-> [body |-> TRUE, key |-> s.last,
                     present |-> s.last # None /\ s.last \in s.pressed]]
  ELSE [s |-> s, e |-> e, ticks |-> q,
        deps |-> [body |-> FALSE, key |-> None, present |-> FALSE]]

\* Mutant: the state clear of line 261 is taken when a chord is playing.
effectAdsrClearsWhenPlaying(s, e, q) ==
  IF s.synth
  THEN LET wasPlaying == s.last # None /\ s.last \in s.pressed
           currentKey == s.last
           e1 == engineCall(e, "set")
       IN [s |-> IF wasPlaying THEN [s EXCEPT !.pressed = {}, !.last = None] ELSE s,
           e |-> IF wasPlaying THEN releaseAll(e1) ELSE e1,
           ticks |-> IF currentKey # None
                     THEN Append(q, [kind |-> "restart", old |-> <<>>, key |-> currentKey])
                     ELSE q,
           deps |-> [body |-> TRUE, key |-> s.last,
                     present |-> s.last # None /\ s.last \in s.pressed]]
  ELSE [s |-> s, e |-> e, ticks |-> q,
        deps |-> [body |-> FALSE, key |-> None, present |-> FALSE]]

\* $effect, ADSR and waveform: [s, e, ticks, deps]
effectAdsr(s, e, q) ==
  IF s.synth
  THEN LET wasPlaying == s.last # None /\ s.last \in s.pressed
           currentKey == s.last
           e1 == engineCall(e, "set")
       IN [s |-> IF ~wasPlaying THEN [s EXCEPT !.pressed = {}, !.last = None] ELSE s,
           e |-> IF ~wasPlaying THEN releaseAll(e1) ELSE e1,
           ticks |-> IF currentKey # None
                     THEN Append(q, [kind |-> "restart", old |-> <<>>, key |-> currentKey])
                     ELSE q,
           deps |-> [body |-> TRUE, key |-> s.last,
                     present |-> s.last # None /\ s.last \in s.pressed]]
  ELSE [s |-> s, e |-> e, ticks |-> q,
        deps |-> [body |-> FALSE, key |-> None, present |-> FALSE]]

\* onMount
onMount(s, e) == [s |-> [s EXCEPT !.synth = TRUE], e |-> engineCall(e, "new")]

\* the callbacks given to tick().then
tickCallback(cb, s, e) ==
  IF ~s.synth THEN e
  ELSE IF cb.kind = "retranspose"
  THEN LET e1 == triggerRelease(e, cb.old)
       IN IF s.last = None THEN e1
          ELSE triggerAttack(e1, getTransposedFrequencies(s.last, s.t))
  ELSE triggerAttack(triggerRelease(e, getTransposedFrequencies(cb.key, s.t)),
                     getTransposedFrequencies(cb.key, s.t))

(***************************************************************************)
(* Inputs.  The environment presses the chord keys of PlayedKeys, moves    *)
(* the joystick to the sampled positions, writes the sampled values to the *)
(* transposition control and turns the attack and waveform knobs.          *)
(***************************************************************************)
MaxPlayed == 2
MaxKnob == 1
keyboardOrder == <<"h", "i", "k", "u", "j", "o", "l">>
PlayedKeys == {keyboardOrder[i] : i \in 1..Min2(MaxPlayed, 7)}
JoystickAngles2 == {90, 360}
JoystickDistances2 == {5, 75, 150}
InputValues == {-30, 30}
KnobPositions == 0..MaxKnob
WaveformPositions == {0, 1}

NoEvent == [type |-> "mount", key |-> None, last0 |-> None, off0 |-> 0, had |-> FALSE]
Arrive(type, key) ==
  event' = [type |-> type, key |-> key, last0 |-> lastKeyClicked,
            off0 |-> transposition, had |-> key \in pressedKeys \cup modifierKeys]

Init ==
  /\ synth = FALSE
  /\ lastKeyClicked = None
  /\ pressedKeys = {}
  /\ modifierKeys = {}
  /\ previousTransposition = 0
  /\ transposition = 0
  /\ joystickActive = FALSE
  /\ knobs = [attack |-> 0, decay |-> 0, sustain |-> 0, release |-> 0, waveformValue |-> 0]
  /\ held = EmptyBag
  /\ calls = <<>>
  /\ event = NoEvent
  /\ batch = effectOrder
  /\ pending = {}
  /\ ticks = <<>>
  /\ adsrDeps = [body |-> FALSE, key |-> None, present |-> FALSE]

\* A handler's step: the new state, the engine, and the first batch.
Handled(r) ==
  /\ Store(r.s)
  /\ StoreEngine(r.e)
  /\ Schedule(<<>>, Dirty(Cur, r.s, r.bumped, adsrDeps))
  /\ UNCHANGED <<ticks, adsrDeps>>

KeyDown ==
  \E key \in PlayedKeys \cup ModKeys :
    /\ Idle
    /\ Arrive("keydown", key)
    /\ Handled(onKeyDown(Cur, FreshEngine, key))

KeyUp ==
  \E key \in PlayedKeys \cup ModKeys :
    /\ Idle
    /\ Arrive("keyup", key)
    /\ Handled(onKeyUp(Cur, FreshEngine, key))

JoystickMove ==
  \E angle2 \in JoystickAngles2, dist2 \in JoystickDistances2 :
    /\ Idle /\ synth
    /\ Arrive("move", None)
    /\ Handled([s |-> handleJoystickMove(Cur, angle2, dist2), e |-> FreshEngine,
                bumped |-> FALSE])

JoystickEnd ==
  /\ Idle /\ synth
  /\ Arrive("end", None)
  /\ Handled([s |-> handleJoystickEnd(Cur), e |-> FreshEngine, bumped |-> FALSE])

\* <TranspositionInput {transposition} {setTransposition} />
TranspositionInput ==
  \E value \in InputValues :
    /\ Idle
    /\ Arrive("input", None)
    /\ Handled([s |-> setTransposition(Cur, value), e |-> FreshEngine, bumped |-> FALSE])

\* <SvgKnob bind:value={attack} />, <SvgKnob bind:value={waveformValue} />
Knob ==
  \/ \E v \in KnobPositions :
       /\ Idle
       /\ Arrive("knob", None)
       /\ Handled([s |-> [Cur EXCEPT !.knobs.attack = v], e |-> FreshEngine,
                   bumped |-> FALSE])
  \/ \E v \in WaveformPositions :
       /\ Idle
       /\ Arrive("knob", None)
       /\ Handled([s |-> [Cur EXCEPT !.knobs.waveformValue = v], e |-> FreshEngine,
                   bumped |-> FALSE])

RunTranspose ==
  /\ batch # <<>> /\ Head(batch) = "transpose"
  /\ LET r == effectTranspose(Cur, ticks)
     IN /\ Store(r.s)
        /\ ticks' = r.ticks
        /\ Schedule(Tail(batch), Dirty(Cur, r.s, FALSE, adsrDeps))
  /\ UNCHANGED <<held, calls, event, adsrDeps>>

RunWasd ==
  /\ batch # <<>> /\ Head(batch) = "wasd"
  /\ LET s1 == effectWasd(Cur)
     IN /\ Store(s1)
        /\ Schedule(Tail(batch), Dirty(Cur, s1, FALSE, adsrDeps))
  /\ UNCHANGED <<held, calls, event, ticks, adsrDeps>>

RunAdsr ==
  /\ batch # <<>> /\ Head(batch) = "adsr"
  /\ LET r == effectAdsr(Cur, Engine, ticks)
     IN /\ Store(r.s)
        /\ StoreEngine(r.e)
        /\ ticks' = r.ticks
        /\ adsrDeps' = r.deps
        /\ Schedule(Tail(batch), Dirty(Cur, r.s, Cur.pressed # r.s.pressed, r.deps))
  /\ UNCHANGED event

RunMount ==
  /\ batch # <<>> /\ Head(batch) = "mount"
  /\ LET r == onMount(Cur, Engine)
     IN /\ Store(r.s)
        /\ StoreEngine(r.e)
        /\ Schedule(Tail(batch), Dirty(Cur, r.s, FALSE, adsrDeps))
  /\ UNCHANGED <<event, ticks, adsrDeps>>

\* Mutant: a deferred callback runs as soon as it is queued.
RunTickEarly ==
  /\ ticks # <<>>
  /\ StoreEngine(tickCallback(Head(ticks), Cur, Engine))
  /\ ticks' = Tail(ticks)
  /\ UNCHANGED <<synth, lastKeyClicked, pressedKeys, modifierKeys, previousTransposition,
                 transposition, joystickActive, knobs, event, batch, pending, adsrDeps>>

RunTick ==
  /\ batch = <<>> /\ pending = {} /\ ticks # <<>>
  /\ StoreEngine(tickCallback(Head(ticks), Cur, Engine))
  /\ ticks' = Tail(ticks)
  /\ UNCHANGED <<synth, lastKeyClicked, pressedKeys, modifierKeys, previousTransposition,
                 transposition, joystickActive, knobs, event, batch, pending, adsrDeps>>

Next ==
  \/ KeyDown
  \/ KeyUp
  \/ JoystickMove
  \/ JoystickEnd
  \/ TranspositionInput
  \/ Knob
  \/ RunTranspose
  \/ RunWasd
  \/ RunAdsr
  \/ RunMount
  \/ RunTick

Spec == Init /\ [][Next]_vars

(***************************************************************************)
(* src/src/App.svelte (lines 336-811), the earlier revision.  The w/a/s/d  *)
(* keys live in pressedKeys with the chord keys, the effects call the      *)
(* engine directly, the transposition is bound to a number input, and a    *)
(* waveform change rebuilds the engine.                                    *)
(***************************************************************************)
appCall(s, e, e1) == IF s.synth THEN e1 ELSE e

appOnKeyDown(s, e, key) ==
  IF key \in ChordKeys
  THEN IF key \notin s.pressed
       THEN LET e1 == IF s.last # None
                      THEN appCall(s, e, triggerRelease(e, getTransposedFrequencies(s.last, s.t)))
                      ELSE e
            IN [s |-> [s EXCEPT !.pressed = s.pressed \cup {key}, !.last = key],
                e |-> appCall(s, e1, triggerAttack(e1, getTransposedFrequencies(key, s.t)))]
       ELSE [s |-> s, e |-> e]
  ELSE [s |-> [s EXCEPT !.pressed = s.pressed \cup {key}], e |-> e]

appOnKeyUp(s, e, key) ==
  IF key \in ChordKeys
  THEN [s |-> [s EXCEPT !.pressed = s.pressed \ {key},
                        !.last = IF s.last = key THEN None ELSE s.last],
        e |-> appCall(s, e, triggerRelease(e, getTransposedFrequencies(key, s.t)))]
  ELSE [s |-> [s EXCEPT !.pressed = s.pressed \ {key}], e |-> e]

\* Mutant: the reset that App.svelte:484 comments out is made.
appHandleJoystickEndResets(s) == [s EXCEPT !.joy = FALSE, !.t = 0]

appHandleJoystickEnd(s) == [s EXCEPT !.joy = FALSE]

\* <input type="number" min="-24" max="24" bind:value={transposition} />
appBindTransposition(s, value) == [s EXCEPT !.t = value]

\* Mutant: the new engine is constructed without disposing of the old one.
appUpdateWaveformNoDispose(s, e) ==
  IF s.synth
  THEN [s |-> [s EXCEPT !.pressed = {}, !.last = None],
        e |-> engineCall(releaseAll(e), "new"),
        replaced |-> TRUE]
  ELSE [s |-> s, e |-> e, replaced |-> FALSE]

\* Mutant: the key state is kept across the reconstruction.
appUpdateWaveformKeepsKeys(s, e) ==
  IF s.synth
  THEN [s |-> s,
        e |-> engineCall(engineCall(releaseAll(e), "dispose"), "new"),
        replaced |-> TRUE]
  ELSE [s |-> s, e |-> e, replaced |-> FALSE]

appUpdateWaveform(s, e) ==
  IF s.synth
  THEN [s |-> [s EXCEPT !.pressed = {}, !.last = None],
        e |-> engineCall(engineCall(releaseAll(e), "dispose"), "new"),
        replaced |-> TRUE]
  ELSE [s |-> s, e |-> e, replaced |-> FALSE]

appEffectTranspose(s, e) ==
  [s |-> [s EXCEPT !.prev = s.t],
   e |-> IF s.t # s.prev /\ s.last # None /\ s.last \in s.pressed /\ s.synth
         THEN triggerAttack(triggerRelease(e, getTransposedFrequencies(s.last, s.prev)),
                            getTransposedFrequencies(s.last, s.t))
         ELSE e]

appEffectWasd(s) == [s EXCEPT !.t = updateWASDTransposition(s.pressed)]

appEffectAdsr(s, e) ==
  [e |-> IF s.synth THEN engineCall(e, "set") ELSE e,
   deps |-> [body |-> s.synth, key |-> None, present |-> FALSE]]

\* transpose reads transposition and previousTransposition; wasd reads
\* pressedKeys.has of w, a, s and d (the set's version when one is absent);
\* adsr reads synth and, when it is set, the envelope.
AppDirty(old, new, replaced, deps) ==
  (IF old.t # new.t \/ old.prev # new.prev THEN {"transpose"} ELSE {})
  \cup (IF /\ old.pressed # new.pressed
           /\ \/ ~(ModKeys \subseteq old.pressed)
              \/ ModKeys \cap old.pressed # ModKeys \cap new.pressed
        THEN {"wasd"} ELSE {})
  \cup (IF \/ replaced
           \/ old.synth # new.synth
           \/ deps.body /\ <<old.knobs.attack, old.knobs.decay, old.knobs.sustain, old.knobs.release>>
                           # <<new.knobs.attack, new.knobs.decay, new.knobs.sustain, new.knobs.release>>
        THEN {"adsr"} ELSE {})

AppHandled(s1, e1, replaced) ==
  /\ Store(s1)
  /\ StoreEngine(e1)
  /\ Schedule(<<>>, AppDirty(Cur, s1, replaced, adsrDeps))
  /\ UNCHANGED <<ticks, adsrDeps>>

\* The environment of the earlier revision: fewer directions, one joystick
\* position on each side of the threshold, one out-of-range value typed.
AppModKeys == {"w", "d"}
AppJoystickDistances2 == {5, 150}
AppInputValues == {30}

AppKeyDown ==
  \E key \in PlayedKeys \cup AppModKeys :
    /\ Idle
    /\ Arrive("keydown", key)
    /\ LET r == appOnKeyDown(Cur, FreshEngine, key) IN AppHandled(r.s, r.e, FALSE)

AppKeyUp ==
  \E key \in PlayedKeys \cup AppModKeys :
    /\ Idle
    /\ Arrive("keyup", key)
    /\ LET r == appOnKeyUp(Cur, FreshEngine, key) IN AppHandled(r.s, r.e, FALSE)

AppJoystickMove ==
  \E angle2 \in {90}, dist2 \in AppJoystickDistances2 :
    /\ Idle /\ synth
    /\ Arrive("move", None)
    /\ AppHandled(handleJoystickMove(Cur, angle2, dist2), FreshEngine, FALSE)

AppJoystickEnd ==
  /\ Idle /\ synth
  /\ Arrive("end", None)
  /\ AppHandled(appHandleJoystickEnd(Cur), FreshEngine, FALSE)

\* the O- and O+ buttons
AppOctave ==
  \E step \in {-12, 12} :
    /\ Idle
    /\ Arrive("octave", None)
    /\ AppHandled(setTransposition(Cur, transposition + step), FreshEngine, FALSE)

AppTranspositionInput ==
  \E value \in AppInputValues :
    /\ Idle
    /\ Arrive("input", None)
    /\ AppHandled(appBindTransposition(Cur, value), FreshEngine, FALSE)

AppKnob ==
  \E v \in KnobPositions :
    /\ Idle
    /\ Arrive("knob", None)
    /\ AppHandled([Cur EXCEPT !.knobs.attack = v], FreshEngine, FALSE)

\* <select bind:value={waveform} onchange={updateWaveform}>
AppWaveform ==
  \E v \in WaveformPositions :
    /\ Idle
    /\ Arrive("waveform", None)
    /\ LET r == appUpdateWaveform([Cur EXCEPT !.knobs.waveformValue = v], FreshEngine)
       IN AppHandled(r.s, r.e, r.replaced)

AppRunTranspose ==
  /\ batch # <<>> /\ Head(batch) = "transpose"
  /\ LET r == appEffectTranspose(Cur, Engine)
     IN /\ Store(r.s)
        /\ StoreEngine(r.e)
        /\ Schedule(Tail(batch), AppDirty(Cur, r.s, FALSE, adsrDeps))
  /\ UNCHANGED <<event, ticks, adsrDeps>>

AppRunWasd ==
  /\ batch # <<>> /\ Head(batch) = "wasd"
  /\ LET s1 == appEffectWasd(Cur)
     IN /\ Store(s1)
        /\ Schedule(Tail(batch), AppDirty(Cur, s1, FALSE, adsrDeps))
  /\ UNCHANGED <<held, calls, event, ticks, adsrDeps>>

AppRunAdsr ==
  /\ batch # <<>> /\ Head(batch) = "adsr"
  /\ LET r == appEffectAdsr(Cur, Engine)
     IN /\ StoreEngine(r.e)
        /\ adsrDeps' = r.deps
        /\ Schedule(Tail(batch), {})
  /\ UNCHANGED <<synth, lastKeyClicked, pressedKeys, modifierKeys, previousTransposition,
                 transposition, joystickActive, knobs, event, ticks>>

AppRunMount ==
  /\ batch # <<>> /\ Head(batch) = "mount"
  /\ LET r == onMount(Cur, Engine)
     IN /\ Store(r.s)
        /\ StoreEngine(r.e)
        /\ Schedule(Tail(batch), AppDirty(Cur, r.s, FALSE, adsrDeps))
  /\ UNCHANGED <<event, ticks, adsrDeps>>

NextApp ==
  \/ AppKeyDown
  \/ AppKeyUp
  \/ AppJoystickMove
  \/ AppJoystickEnd
  \/ AppOctave
  \/ AppTranspositionInput
  \/ AppKnob
  \/ AppWaveform
  \/ AppRunTranspose
  \/ AppRunWasd
  \/ AppRunAdsr
  \/ AppRunMount

SpecApp == Init /\ [][NextApp]_vars

(***************************************************************************)
(* src/unnamed/part_000 under joystick gestures.  The joystick reports a   *)
(* position (angle, distance) with each move; the event keeps it.  The     *)
(* angle sweeps every half degree of MaxTurns turns either way at full     *)
(* deflection and the compass angles and midpoints at every distance; a move *)
(* above the threshold starts a gesture, which the end event closes, and   *)
(* moves below the threshold come at any time.  Key "h" is played          *)
(* meanwhile.                                                              *)
(***************************************************************************)
MaxTurns == 1
GestureAngles2 == (-720 * MaxTurns)..(720 * MaxTurns)
Midpoints2 == {45 * i : i \in 0..15}
GestureDistances2 == {4, 10, 12, 75, 150, 200}
GesturePositions == (GestureAngles2 \X {150}) \cup (Midpoints2 \X GestureDistances2)
GestureKeys == {"h"}

\* joystickManager.on("move", ...) with data.angle.degree = g[1] / 2 and
\* data.distance = g[2] / 2
Gesture ==
  \E g \in GesturePositions :
    /\ Idle /\ synth
    /\ ~joystickActive \/ g[2] <= 10
    /\ event' = [type |-> "gesture", key |-> None, last0 |-> lastKeyClicked,
                 off0 |-> transposition, had |-> joystickActive,
                 angle2 |-> g[1], dist2 |-> g[2]]
    /\ Handled([s |-> handleJoystickMove(Cur, g[1], g[2]), e |-> FreshEngine,
                bumped |-> FALSE])

GestureKeyDown ==
  \E key \in GestureKeys :
    /\ Idle
    /\ Arrive("keydown", key)
    /\ Handled(onKeyDown(Cur, FreshEngine, key))

GestureKeyUp ==
  \E key \in GestureKeys :
    /\ Idle
    /\ Arrive("keyup", key)
    /\ Handled(onKeyUp(Cur, FreshEngine, key))

NextGesture ==
  \/ Gesture
  \/ JoystickEnd
  \/ GestureKeyDown
  \/ GestureKeyUp
  \/ RunTranspose
  \/ RunWasd
  \/ RunAdsr
  \/ RunMount
  \/ RunTick

SpecGesture == Init /\ [][NextGesture]_vars

(***************************************************************************)
(* src/unnamed/part_000 with input ahead of the engine.  The effects run   *)
(* for the first time before onMount constructs the engine; here the       *)
(* handlers are also called before that first run (keys, the transposition *)
(* control, the knobs; the joystick is wired in onMount).  Nothing has run *)
(* yet, so their writes make nothing dirty: the first run of each effect   *)
(* reads them.  The call log is kept across these events.                  *)
(***************************************************************************)
BeforeMount == ~synth /\ batch = effectOrder

EarlyArrive(type, key) ==
  event' = [type |-> type, key |-> key, last0 |-> lastKeyClicked,
            off0 |-> transposition, had |-> key \in pressedKeys \cup modifierKeys,
            early |-> TRUE]

EarlyHandled(r) ==
  /\ Store(r.s)
  /\ StoreEngine(r.e)
  /\ UNCHANGED <<batch, pending, ticks, adsrDeps>>

EarlyKeyDown ==
  \E key \in PlayedKeys \cup ModKeys :
    /\ BeforeMount
    /\ EarlyArrive("keydown", key)
    /\ EarlyHandled(onKeyDown(Cur, Engine, key))

EarlyKeyUp ==
  \E key \in PlayedKeys \cup ModKeys :
    /\ BeforeMount
    /\ EarlyArrive("keyup", key)
    /\ EarlyHandled(onKeyUp(Cur, Engine, key))

EarlyTranspositionInput ==
  \E value \in InputValues :
    /\ BeforeMount
    /\ EarlyArrive("input", None)
    /\ EarlyHandled([s |-> setTransposition(Cur, value), e |-> Engine])

EarlyKnob ==
  \E v \in KnobPositions :
    /\ BeforeMount
    /\ EarlyArrive("knob", None)
    /\ EarlyHandled([s |-> [Cur EXCEPT !.knobs.attack = v], e |-> Engine])

NextEarly ==
  \/ EarlyKeyDown
  \/ EarlyKeyUp
  \/ EarlyTranspositionInput
  \/ EarlyKnob
  \/ KeyDown
  \/ KeyUp
  \/ JoystickMove
  \/ JoystickEnd
  \/ TranspositionInput
  \/ Knob
  \/ RunTranspose
  \/ RunWasd
  \/ RunAdsr
  \/ RunMount
  \/ RunTick

SpecEarly == Init /\ [][NextEarly]_vars

(***************************************************************************)
(* src/unnamed/part_000 under the transposition control and the chord      *)
(* buttons' labels.  The control asks for any offset of -MaxInput ..        *)
(* MaxInput and the event keeps the value asked for; once the effects have *)
(* settled each chord button shows getChordName(key), and a render event   *)
(* keeps the frequencies the name was detected on, what the detector       *)
(* returned for them and for the base triad, and the name shown.  The      *)
(* detector is a function of the frequencies: at offset 0 both results are *)
(* the same.                                                               *)
(***************************************************************************)
MaxInput == 26
DisplayInputs == (-MaxInput)..MaxInput
Detections == {<<>>, <<"CM">>, <<"CM", "Em#5/C">>}

DisplayInput ==
  \E value \in DisplayInputs :
    /\ Idle
    /\ event' = [type |-> "input", key |-> None, last0 |-> lastKeyClicked,
                 off0 |-> transposition, had |-> FALSE, value |-> value]
    /\ Handled([s |-> setTransposition(Cur, value), e |-> FreshEngine, bumped |-> FALSE])

\* <div class="text-xl">{getChordName(key)}</div>
Render ==
  \E key \in ChordKeys, chord \in Detections, originalChord \in Detections :
    /\ Idle /\ synth
    /\ getTransposedFrequencies(key, transposition) = chords[key] => chord = originalChord
    /\ event' = [type |-> "render", key |-> key, last0 |-> lastKeyClicked,
                 off0 |-> transposition, had |-> FALSE,
                 frequencies |-> IF transposition = 0 THEN chords[key]
                                 ELSE getTransposedFrequencies(key, transposition),
                 chord |-> chord, originalChord |-> originalChord,
                 name |-> getChordName(key, transposition, chord, originalChord)]
    /\ UNCHANGED <<synth, lastKeyClicked, pressedKeys, modifierKeys, previousTransposition,
                   transposition, joystickActive, knobs, held, calls, batch, pending,
                   ticks, adsrDeps>>

NextDisplay ==
  \/ DisplayInput
  \/ Render
  \/ RunTranspose
  \/ RunWasd
  \/ RunAdsr
  \/ RunMount

SpecDisplay == Init /\ [][NextDisplay]_vars

(***************************************************************************)
(* Properties.  A "settled" state is Idle; `event` tells which event was   *)
(* handled last, the sounding key (last0) and offset (off0) it arrived at, *)
(* and whether its key was already pressed (had);  `calls` is what the       *)
(* engine received on its account.                                         *)
(***************************************************************************)
Indices(q, op, freqs) == {i \in 1..Len(q) : q[i].op = op /\ q[i].freqs = freqs}
Ops(q) == [i \in 1..Len(q) |-> <<q[i].op, q[i].freqs>>]
ChordDown == event.type = "keydown" /\ event.key \in ChordKeys
ChordUp == event.type = "keyup" /\ event.key \in ChordKeys
Sounding0 == event.last0 # None

\* C1: the engine never holds more than one chord: at most one chord is
\* attacked and not yet released, and it is held once.
C1_AtMostOneChord ==
  /\ Cardinality(BagToSet(held)) <= 1
  /\ \A f \in BagToSet(held) : CopiesIn(f, held) = 1

\* C1 witness: a second key was pressed while the first sounded, and the
\* engine holds the second key's chord.
C1_Witness ==
  /\ Idle /\ ChordDown /\ Sounding0 /\ event.last0 # event.key
  /\ BagToSet(held) = {getTransposedFrequencies(event.key, transposition)}

\* C2: when key k2 is pressed while another key k1 sounds, the first call
\* the engine receives is the release of k1's frequencies, the second the
\* trigger of k2's, and no trigger of k2's comes before that release.
C2_ReleaseBeforeAttack ==
  (ChordDown /\ ~event.had /\ Sounding0 /\ event.last0 # event.key /\ synth)
    => /\ Len(calls) >= 2
       /\ <<calls[1].op, calls[1].freqs>> =
            <<"release", getTransposedFrequencies(event.last0, event.off0)>>
       /\ <<calls[2].op, calls[2].freqs>> =
            <<"attack", getTransposedFrequencies(event.key, event.off0)>>

\* C2 witness: i pressed while h sounds at offset 0.
C2_Witness ==
  /\ ChordDown /\ event.key = "i" /\ event.last0 = "h" /\ event.off0 = 0
  /\ Len(calls) >= 2 /\ calls[1].op = "release" /\ calls[2].op = "attack"

\* C3 (as claimed): a key-down of a chord key issues exactly one trigger for
\* it when the key was not pressed and none when it already was, so any
\* number of key-downs without a key-up issue exactly one.
C3_OneTriggerPerPress ==
  (Idle /\ ChordDown /\ synth)
    => Cardinality(Indices(calls, "attack",
                           getTransposedFrequencies(event.key, event.off0)))
         = IF event.had THEN 0 ELSE 1

\* C4: when the offset changes from p to q while key k sounds, the engine
\* receives release(k's triad shifted by p), then trigger(k's triad shifted
\* by q), and nothing else.
C4_Retranspose ==
  (Idle /\ ~ChordDown /\ ~ChordUp /\ event.type # "knob" /\ Sounding0
        /\ event.off0 # transposition)
    => Ops(calls) =
         << <<"release", getTransposedFrequencies(event.last0, event.off0)>>,
            <<"attack", getTransposedFrequencies(event.last0, transposition)>> >>

\* C4 witness: h held at offset 0, then the offset becomes +4.
C4_Witness ==
  /\ Idle /\ event.last0 = "h" /\ event.off0 = 0 /\ transposition = 4
  /\ Ops(calls) =
       << <<"release", << <<"C", 3>>, <<"E", 3>>, <<"G", 3>> >> >>,
          <<"attack", << <<"E", 3>>, <<"G#", 3>>, <<"B", 3>> >> >> >>

\* C5: every release names a chord the engine holds at that moment, the one
\* attacked last.
C5_ReleasePairs ==
  \A i \in 1..Len(calls) : calls[i].op = "release" => calls[i].hit

\* C5 witness: a key released after a live re-transposition; the release
\* names the shifted chord.
C5_Witness ==
  /\ Idle /\ ChordUp /\ event.had /\ event.off0 = 7
  /\ Len(calls) >= 1 /\ calls[1].op = "release" /\ calls[1].hit
  /\ calls[1].freqs = getTransposedFrequencies(event.key, 7)

\* C6 (as claimed): the offset is always within [-24, 24].
C6_OffsetInRange == -24 <= transposition /\ transposition <= 24

\* C7: the sounding key is undefined or a pressed key.
C7_SoundingIsPressed == lastKeyClicked = None \/ lastKeyClicked \in pressedKeys

\* C7 witness: a key sounds.
C7_Witness == Idle /\ lastKeyClicked \in pressedKeys /\ held # EmptyBag

\* C8 (as claimed): a key-up of a chord key that is not pressed issues no
\* call and changes nothing; of a pressed key, it removes the key and, if it
\* sounded, releases its chord and clears the sounding key.
KeyUpStep == Idle /\ event'.type = "keyup" /\ event'.key \in ChordKeys

C8_KeyUp ==
  [][KeyUpStep =>
       IF event'.key \notin pressedKeys
       THEN /\ calls' = <<>>
            /\ batch' = <<>>
            /\ UNCHANGED <<synth, lastKeyClicked, pressedKeys, modifierKeys,
                           previousTransposition, transposition, joystickActive,
                           knobs, held>>
       ELSE /\ pressedKeys' = pressedKeys \ {event'.key}
            /\ lastKeyClicked = event'.key =>
                 /\ lastKeyClicked' = None
                 /\ Ops(calls') =
                      << <<"release", getTransposedFrequencies(event'.key, transposition)>> >>
    ]_vars

\* C9 (as claimed): pressing key k at offset o when no chord sounds results
\* in exactly one trigger call, with k's triad shifted by o.
C9_OneTriggerOnPress ==
  (Idle /\ ChordDown /\ ~event.had /\ ~Sounding0 /\ synth)
    => /\ Cardinality({i \in 1..Len(calls) : calls[i].op = "attack"}) = 1
       /\ \A i \in 1..Len(calls) :
            calls[i].op = "attack"
              => calls[i].freqs = getTransposedFrequencies(event.key, event.off0)

\* C10 (as claimed): a held modifier set with an opposing pair resolves to
\* offset 0.
ModifiersChanged ==
  /\ event.type \in {"keydown", "keyup"}
  /\ event.key \in ModKeys
  /\ event.had # (event.key \in modifierKeys)
Opposing(keys) == {"w", "s"} \subseteq keys \/ {"a", "d"} \subseteq keys

C10_OpposingIsZero ==
  (Idle /\ ModifiersChanged /\ Opposing(modifierKeys)) => transposition = 0

\* C10 (amended): a held modifier set with an opposing pair resolves to the
\* offset of the first rule of the chain that matches: 0 for {w,s}, 4 for
\* {a,d}, 2 when w and d are held, 7 for {a,s,d}, -3 for {w,a,s}.
C10_OpposingFirstMatch ==
  (Idle /\ ModifiersChanged /\ Opposing(modifierKeys))
    => transposition =
         CASE modifierKeys = {"w", "s"} -> 0
           [] modifierKeys = {"a", "d"} -> 4
           [] modifierKeys = {"w", "s", "d"} -> 2
           [] modifierKeys = {"w", "a", "d"} -> 2
           [] modifierKeys = {"w", "a", "s", "d"} -> 2
           [] modifierKeys = {"a", "s", "d"} -> 7
           [] modifierKeys = {"w", "a", "s"} -> -3

\* C10 witness: a and d held, resolved to the offset of "right".
C10_Witness ==
  Idle /\ ModifiersChanged /\ modifierKeys = {"a", "d"} /\ transposition = 4

\* C11: each of the 8 defined modifier combinations resolves to the offset
\* getTranspositionFromAngle gives for its compass angle (w 90, d 0, s 270,
\* a 180, w+d 45, s+d 315, s+a 225, w+a 135).
CompassOf(keys) ==
  CASE keys = {"w"} -> 90
    [] keys = {"d"} -> 0
    [] keys = {"s"} -> 270
    [] keys = {"a"} -> 180
    [] keys = {"w", "d"} -> 45
    [] keys = {"s", "d"} -> 315
    [] keys = {"s", "a"} -> 225
    [] keys = {"w", "a"} -> 135
DefinedCombinations ==
  {{"w"}, {"d"}, {"s"}, {"a"}, {"w", "d"}, {"s", "d"}, {"s", "a"}, {"w", "a"}}

C11_CombinationIsCompassAngle ==
  (Idle /\ ModifiersChanged /\ modifierKeys \in DefinedCombinations)
    => transposition = getTranspositionFromAngle(2 * CompassOf(modifierKeys))

\* C11 witness: w and d held, resolved to the offset of 45 degrees.
C11_Witness ==
  /\ Idle /\ ModifiersChanged /\ modifierKeys = {"w", "d"}
  /\ transposition = getTranspositionFromAngle(90) /\ transposition = 2

\* C12: while a modifier key-down or key-up is handled, pressedKeys and
\* lastKeyClicked do not change; a key-down of a modifier already held
\* changes nothing and issues nothing; and once a change of modifierKeys has
\* settled, the offset is that of the set now held (0 when it is empty),
\* whatever it was before.
ModifierStep == event'.type \in {"keydown", "keyup"} /\ event'.key \in ModKeys

C12_ModifierFrame ==
  /\ [][ModifierStep =>
          /\ UNCHANGED <<pressedKeys, lastKeyClicked>>
          /\ (Idle /\ event'.type = "keydown" /\ event'.key \in modifierKeys)
               => /\ calls' = <<>>
                  /\ batch' = <<>>
                  /\ UNCHANGED <<synth, modifierKeys, previousTransposition,
                                 transposition, joystickActive, knobs, held>>
       ]_vars
  /\ []((Idle /\ ModifiersChanged)
          => /\ transposition = updateWASDTransposition(modifierKeys)
             /\ modifierKeys = {} => transposition = 0)

\* C12 witness: d pressed while h sounds at offset 24 set by the
\* transposition control; the offset becomes that of d and h still sounds.
C12_Witness ==
  /\ Idle /\ ModifiersChanged /\ event.type = "keydown" /\ event.key = "d"
  /\ event.off0 = 24 /\ event.last0 = "h"
  /\ modifierKeys = {"d"} /\ transposition = 4 /\ lastKeyClicked = "h"

\* A settled joystick move above the threshold, and one at full deflection.
GestureDone == Idle /\ event.type = "gesture" /\ event.dist2 > 10
FullGesture == GestureDone /\ event.dist2 >= 150

\* C13: the offset a move at angle a resolves to is the offset of a + 360
\* and of a - 360, for negative angles and angles of 360 and more as well.
C13_Periodic ==
  FullGesture
    => /\ transposition = getTranspositionFromAngle(event.angle2 + 720)
       /\ transposition = getTranspositionFromAngle(event.angle2 - 720)

\* C13 witness: a move at -315 degrees resolves like 45 degrees.
C13_Witness == FullGesture /\ event.angle2 = -630 /\ transposition = 2

\* C14: the offset a move at angle a resolves to is the table offset of a
\* compass angle that no other compass angle beats in circular distance to a.
CompassAngles == {45 * i : i \in 0..7}
CircularDistance2(a2, c) ==
  LET d == (a2 - 2 * c) % 720 IN Min2(d, 720 - d)
Nearest(a2) ==
  {c \in CompassAngles :
     \A c2 \in CompassAngles : CircularDistance2(a2, c) <= CircularDistance2(a2, c2)}

C14_Closest ==
  FullGesture
    => \E c \in Nearest(event.angle2) : transposition = transpositionMap(c)

\* C14 witness: 359.5 degrees resolves to the entry of 0, not of 315.
C14_Witness ==
  /\ FullGesture /\ event.angle2 = 719
  /\ transposition = transpositionMap(0) /\ transposition # transpositionMap(315)

\* C15 (as claimed): an angle midway between two compass angles resolves to
\* the one written first in the table (90, 45, 0, 315, 270, 225, 180, 135).
Tie(a2) == a2 % 90 = 45
FirstIn(order, S) ==
  order[CHOOSE i \in 1..Len(order) :
          order[i] \in S /\ \A j \in 1..(i - 1) : order[j] \notin S]

C15_TieDeclarationOrder ==
  (FullGesture /\ Tie(event.angle2))
    => transposition = transpositionMap(FirstIn(mapAnglesDeclared, Nearest(event.angle2)))

\* C15 (amended): an angle midway between two compass angles resolves to the
\* one that comes first in ascending numeric order (0, 45, ..., 315), which
\* is the order Object.keys gives: the lower of the two, and 0 at 337.5.
AscendingOrder == <<0, 45, 90, 135, 180, 225, 270, 315>>

C15_TieAscendingOrder ==
  (FullGesture /\ Tie(event.angle2))
    => transposition = transpositionMap(FirstIn(AscendingOrder, Nearest(event.angle2)))

\* C15 witness: 22.5 degrees resolves to the entry of 0 (offset 4), not to
\* the entry of 45 (offset 2).
C15_Witness ==
  /\ FullGesture /\ event.angle2 = 45 /\ Nearest(event.angle2) = {0, 45}
  /\ transposition = 4

\* C16: after a move above the threshold the offset is the table offset of
\* the angle times min(distance / 75, 1), rounded to the nearest integer
\* (halves up): 2 at 45 degrees from 75 px on, 1 at 45 degrees and 37.5 px.
C16_Scaled ==
  GestureDone
    => LET o == getTranspositionFromAngle(event.angle2)
           m == Min2(event.dist2, 150)
       IN /\ (2 * transposition - 1) * 150 <= 2 * o * m
          /\ 2 * o * m < (2 * transposition + 1) * 150
          /\ (event.angle2 = 90 /\ event.dist2 >= 150) => transposition = 2
          /\ (event.angle2 = 90 /\ event.dist2 = 75) => transposition = 1

\* C16 witness: 45 degrees at half the maximum distance gives 1.
C16_Witness ==
  GestureDone /\ event.angle2 = 90 /\ event.dist2 = 75 /\ transposition = 1

\* C17: a move whose displacement does not exceed the threshold changes no
\* state, issues no call, and leaves nothing to run.
C17_BelowThresholdIgnored ==
  [][(Idle /\ event'.type = "gesture" /\ event'.dist2 <= 10)
       => /\ calls' = <<>>
          /\ batch' = <<>> /\ pending' = {} /\ ticks' = <<>>
          /\ UNCHANGED <<synth, lastKeyClicked, pressedKeys, modifierKeys,
                         previousTransposition, transposition, joystickActive,
                         knobs, held>>
    ]_vars

\* C17 witness: a move of 2 px during a gesture that set the offset to 2
\* while h sounds; the offset, the flag and the chord stay.
C17_Witness ==
  /\ Idle /\ event.type = "gesture" /\ event.dist2 = 4 /\ event.had
  /\ event.off0 = 2 /\ transposition = 2 /\ joystickActive
  /\ lastKeyClicked = "h" /\ held # EmptyBag /\ calls = <<>>

\* C18: nothing reaches the engine, nothing is deferred and no chord key is
\* taken as pressed or sounding while the engine does not exist; until the
\* first event after its construction no trigger or release is issued and
\* nothing is held; and later on a trigger or release is issued only when a
\* chord sounded as the event arrived or the event is a chord key-down.
EarlyEvent == event = NoEvent \/ "early" \in DOMAIN event
AudioOps(q) == {i \in 1..Len(q) : q[i].op \in {"attack", "release"}}

C18_DroppedBeforeMount ==
  /\ ~synth => /\ calls = <<>> /\ ticks = <<>> /\ held = EmptyBag
               /\ lastKeyClicked = None /\ pressedKeys = {}
  /\ EarlyEvent => AudioOps(calls) = {} /\ ticks = <<>> /\ held = EmptyBag
  /\ (Idle /\ ~Sounding0 /\ ~ChordDown) => AudioOps(calls) = {}

\* C18 witness: h was pressed before the engine existed; the engine now
\* exists, nothing sounds and no key counts as pressed.
C18_Witness ==
  /\ Idle /\ synth /\ "early" \in DOMAIN event
  /\ event.type = "keydown" /\ event.key = "h"
  /\ Len(calls) > 0 /\ calls[1].op = "new"
  /\ held = EmptyBag /\ pressedKeys = {} /\ lastKeyClicked = None

\* C19: a release or trigger that comes from an effect (a derived command,
\* as opposed to the calls a key handler makes itself) is issued when every
\* effect of the update has run, in a step that changes no state and makes
\* no effect dirty; it is a release followed by the trigger of the sounding
\* key's chord at the settled offset.  An effect changes pressedKeys,
\* lastKeyClicked or transposition only while effects are still running,
\* hence before any derived command.  In a key handler's own calls every
\* release precedes every trigger.
Added == SubSeq(calls', Len(calls) + 1, Len(calls'))
DerivedStep == ~Idle /\ Len(calls') > Len(calls) /\ AudioOps(Added) # {}

CountOp(q, op, i) == Cardinality({j \in 1..i : q[j].op = op})
LiveAfter(i) ==
  (IF event = NoEvent THEN 0 ELSE 1)
    + CountOp(calls, "new", i) - CountOp(calls, "dispose", i)

C20_OneEngine ==
  /\ \A i \in 0..Len(calls) : LiveAfter(i) \in {0, 1}
  /\ synth <=> LiveAfter(Len(calls)) = 1
  /\ Idle => synth
  /\ event = NoEvent => CountOp(calls, "new", Len(calls)) <= 1
  /\ event # NoEvent
       => \A i \in 1..Len(calls) :
            calls[i].op = "new"
              => /\ i >= 3
                 /\ calls[i - 1].op = "dispose"
                 /\ calls[i - 2].op = "releaseAll"

\* C20 witness: the waveform is changed while h sounds; the engine got
\* releaseAll, dispose and then the construction of its replacement.
C20_Witness ==
  /\ Idle /\ event.type = "waveform" /\ event.last0 = "h" /\ synth
  /\ Len(calls) >= 3
  /\ calls[1].op = "releaseAll" /\ calls[1].hit
  /\ calls[2].op = "dispose" /\ calls[3].op = "new"
  /\ held = EmptyBag

\* C21 (as claimed): a change of an envelope value or of the waveform while
\* a chord sounds issues no release and no trigger and leaves the pressed
\* keys and the sounding key as they were.
KnobWhileSounding == Idle /\ event.type = "knob" /\ Sounding0

C21_NoRetrigger ==
  KnobWhileSounding
    => /\ AudioOps(calls) = {}
       /\ lastKeyClicked = event.last0
       /\ event.last0 \in pressedKeys

\* C21 (amended): a knob event while a chord sounds leaves the pressed keys
\* and the sounding key as they were; when it changes a value the engine is
\* patched in place (set) and the sounding chord is then restarted: one
\* release and one trigger of the chord at the current offset, which the
\* engine holds once afterwards.
C21_PatchThenRestart ==
  KnobWhileSounding
    => LET sounding == getTransposedFrequencies(event.last0, transposition)
       IN /\ lastKeyClicked = event.last0
          /\ pressedKeys = {event.last0}
          /\ held = SetToBag({sounding})
          /\ \/ calls = <<>>
             \/ Ops(calls) = << <<"set", <<>> >>,
                                <<"release", sounding>>,
                                <<"attack", sounding>> >>

\* C21 witness: the attack knob is turned while h sounds; set, then the
\* release and the trigger of h's chord.
C21_Witness ==
  /\ KnobWhileSounding /\ event.last0 = "h" /\ lastKeyClicked = "h"
  /\ Len(calls) = 3 /\ calls[1].op = "set"
  /\ calls[2].op = "release" /\ calls[3].op = "attack"

\* C22: after a waveform change that reconstructs the engine nothing is
\* held by the engine, pressedKeys is empty and no key is sounding, whatever
\* was pressed before.
C22_ReconstructClears ==
  (event.type = "waveform" /\ synth)
    => held = EmptyBag /\ pressedKeys = {} /\ lastKeyClicked = None

\* C22 witness: the waveform is changed while h sounds at offset 2 with w
\* and d held; nothing is held or pressed afterwards, and the offset is
\* back to 0 as no modifier is pressed any more.
C22_Witness ==
  /\ Idle /\ event.type = "waveform" /\ event.last0 = "h" /\ event.off0 = 2
  /\ held = EmptyBag /\ pressedKeys = {} /\ lastKeyClicked = None
  /\ transposition = 0

\* A chord button's label as shown, and the offset written the way the
\* label writes it.
Rendered == event.type = "render"
Signed(o) == IF o > 0 THEN "+" \o ToString(o) ELSE ToString(o)

\* C23 (as claimed): when nothing is detected on the frequencies shown nor
\* on the base triad, the label is exactly "Unknown", at every offset.
C23_UnknownLiteral ==
  (Rendered /\ event.chord = <<>> /\ event.originalChord = <<>>)
    => event.name = "Unknown"

\* C23 (amended): when nothing is detected on the frequencies shown nor on
\* the base triad, the label is "Unknown" at offset 0 and "Unknown"
\* followed by a space and the signed offset otherwise.
C23_UnknownWithOffset ==
  (Rendered /\ event.chord = <<>> /\ event.originalChord = <<>>)
    => event.name = IF transposition = 0 THEN "Unknown"
                    ELSE "Unknown " \o Signed(transposition)

\* C23 witness: nothing detected for l at offset +3: "Unknown +3".
C23_Witness ==
  /\ Rendered /\ event.key = "l" /\ transposition = 3
  /\ event.chord = <<>> /\ event.originalChord = <<>>
  /\ event.name = "Unknown +3"

\* C24: with one or more candidates detected on the frequencies shown the
\* label is the first; with none but name N detected on the base triad it
\* is N, a space and the offset with "+" when positive and a bare minus
\* when negative, and N alone at offset 0.
C24_FirstCandidateOrBaseName ==
  Rendered
    => /\ event.chord # <<>> => event.name = Head(event.chord)
       /\ (event.chord = <<>> /\ event.originalChord # <<>>)
            => event.name = IF transposition = 0 THEN Head(event.originalChord)
                            ELSE Head(event.originalChord) \o " " \o Signed(transposition)

\* C24 witness: nothing detected for h at offset -3, "CM" on its base
\* triad: "CM -3".
C24_Witness ==
  /\ Rendered /\ event.key = "h" /\ transposition = -3
  /\ event.chord = <<>> /\ event.originalChord = <<"CM">>
  /\ event.name = "CM -3"

\* C25: for the key and offset of every label shown, transposing each
\* frequency shown by minus the offset gives back the base triad, and at
\* offset 0 the frequencies are the base triad itself.
C25_RoundTrip ==
  Rendered
    => /\ [i \in 1..3 |-> transposeNote(
                            getTransposedFrequencies(event.key, transposition)[i],
                            -transposition)]
            = chords[event.key]
       /\ [i \in 1..3 |-> transposeNote(event.frequencies[i], -transposition)]
            = chords[event.key]
       /\ transposition = 0 => getTransposedFrequencies(event.key, 0) = chords[event.key]

\* C25 witness: l at offset -24, shown two octaves down (B1, D2, F2).
C25_Witness ==
  /\ Rendered /\ event.key = "l" /\ transposition = -24
  /\ event.frequencies = << <<"B", 1>>, <<"D", 2>>, <<"F", 2>> >>

\* C26: once a request for offset x has settled, the offset is x when
\* -24 <= x <= 24 and the nearer bound otherwise, and setTransposition of
\* the offset leaves it as it is.
Requested == Idle /\ event.type = "input"

C26_ClampIdempotent ==
  Requested
    => /\ setTransposition(Cur, transposition).t = transposition
       /\ (-24 <= event.value /\ event.value <= 24) => transposition = event.value
       /\ event.value > 24 => transposition = 24
       /\ event.value < -24 => transposition = -24

\* C26 witness: 26 was asked for and the offset is 24.
C26_Witness == Requested /\ event.value = 26 /\ transposition = 24

\* C27: once everything an event set off has run and no key is sounding,
\* the engine holds nothing.
C27_NoStuckVoice == (Idle /\ lastKeyClicked = None) => held = EmptyBag

\* C27 witness: the sounding key is let go at offset 4, after its chord was
\* re-attacked there; it was released at that offset and nothing is held.
C27_Witness ==
  /\ Idle /\ ChordUp /\ event.had /\ event.last0 = event.key /\ event.off0 = 4
  /\ lastKeyClicked = None /\ held = EmptyBag
  /\ Ops(calls)[1] = <<"release", getTransposedFrequencies(event.key, 4)>>

\* C29: pressedKeys is {lastKeyClicked} when a key sounds and empty when
\* none does, in every state; so a key-down of a key that was superseded is
\* taken as a fresh press.
C29_PressedIsSounding ==
  /\ pressedKeys = IF lastKeyClicked = None THEN {} ELSE {lastKeyClicked}
  /\ (Idle /\ ChordDown /\ Sounding0 /\ event.key # event.last0)
       => /\ ~event.had
          /\ lastKeyClicked = event.key
          /\ Indices(calls, "attack",
                     getTransposedFrequencies(event.key, event.off0)) # {}

\* C29 witness: h is pressed (again) while i sounds, i having dropped every
\* other key from pressedKeys; h is taken as a fresh press and sounds alone.
C29_Witness ==
  /\ Idle /\ ChordDown /\ event.key = "h" /\ event.last0 = "i" /\ ~event.had
  /\ pressedKeys = {"h"} /\ lastKeyClicked = "h"
  /\ Ops(calls)[2] = <<"attack", getTransposedFrequencies("h", event.off0)>>

\* C30: in a settled state previousTransposition equals transposition, and
\* the chord the engine holds is the sounding key's at previousTransposition.
C30_PreviousIsCurrent ==
  Idle => /\ previousTransposition = transposition
          /\ lastKeyClicked # None
               => held = SetToBag({getTransposedFrequencies(lastKeyClicked,
                                                            previousTransposition)})

\* C30 witness: the offset was changed from 0 to 24 while no chord sounded.
C30_Witness ==
  /\ Idle /\ event.type = "input" /\ ~Sounding0 /\ event.off0 = 0
  /\ transposition = 24 /\ previousTransposition = 24

GestureEnded == Idle /\ event.type = "end"

\* C28 (as claimed): after a gesture-end the active-gesture flag is false and
\* the offset is 0, whatever it was and whatever modifiers are held.
C28_EndResets == GestureEnded => ~joystickActive /\ transposition = 0

\* C28 (amended): after a gesture-end the flag is false and the offset is the
\* one the gesture left, whatever modifiers are held.
C28_EndKeepsOffset == GestureEnded => ~joystickActive /\ transposition = event.off0

\* C28 witness: a gesture that had set a nonzero offset ends while a modifier
\* is held; the flag is cleared and the offset stays.
C28_Witness ==
  /\ GestureEnded /\ event.off0 # 0 /\ pressedKeys \cap AppModKeys # {}
  /\ ~joystickActive /\ transposition = event.off0

\* What an effect waiting to run can still cost: itself, the deferred
\* callback it may queue and the runs its writes may cause.
Weight(x) ==
  IF x = "transpose" THEN (IF transposition # previousTransposition THEN 3 ELSE 1)
  ELSE IF x = "wasd" THEN 4
  ELSE IF x = "adsr" THEN 2
  ELSE 3

RECURSIVE SumWeights(_)
SumWeights(S) ==
  IF S = {} THEN 0
  ELSE LET x == CHOOSE y \in S : TRUE IN Weight(x) + SumWeights(S \ {x})

\* The guards of RunTranspose, RunWasd, RunAdsr, RunMount and RunTick.
CanRun ==
  \/ batch # <<>> /\ Head(batch) \in Range(effectOrder)
  \/ batch = <<>> /\ pending = {} /\ ticks # <<>>

Measure == Len(ticks) + SumWeights(Range(batch) \cup pending)

\* C31: every flush ends after finitely many runs: in a state that is not
\* settled an effect or a deferred callback can run, every such run lowers
\* Measure, a natural number, and the release/trigger commands issued on
\* account of one event are at most four (a release and an attack from the
\* handler, a release and an attack from one deferred callback).
C31_Quiescence ==
  /\ [](Cardinality(AudioOps(calls)) <= 4)
  /\ [](~Idle => CanRun)
  /\ [][~Idle => Measure' < Measure]_vars

\* C31 witness: a modifier key-down while a chord sounds has settled; the
\* watch wrote the offset, the re-transposition effect wrote
\* previousTransposition and ran again, and both callbacks have run.
C31_Witness ==
  /\ Idle /\ event.type = "keydown" /\ event.key \in ModKeys /\ Sounding0
  /\ transposition # event.off0 /\ previousTransposition = transposition
  /\ Cardinality(AudioOps(calls)) >= 2

====
